---- MODULE Spec2Model ----
(***************************************************************************)
(* RunLogger of tracing-examples/rest/rest.ipynb: the execution-order      *)
(* bookkeeping (_run_map, _parents) behind post_run and patch_run, and the *)
(* properties the specification states about it.  The specification's      *)
(* begin(run_id, parent_run_id) is post_run / _get_execution_order, its    *)
(* end(run_id) is patch_run / _update_execution_order.  The callers are    *)
(* arbitrary and careful sequences of calls (Spec), the specification's    *)
(* scenarios (SpecScenario), overlapping sibling runs (SpecSiblings), the  *)
(* notebook's fibonacci with requests that may raise (SpecFib), two        *)
(* threads sharing one RunLogger (SpecThreads) and callers that build one  *)
(* or two trees of runs (SpecTree, SpecTrees).  Two more notebooks follow: *)
(* the feedback pipeline of algorithmic_feedback.ipynb (SpecFeedback) and  *)
(* the polling loops of fine-tuning-on-chat-runs.ipynb (SpecPoll).         *)
(***************************************************************************)
EXTENDS Integers, Sequences, FiniteSets, TLC

\* Python's None: an absent parent_run_id, the default of dict.pop(k, None).
None == "None"

\* Run ids the arbitrary caller of Spec draws run_id and parent_run_id from.
Ids == {"A", "B", "C"}

\* Run ids the careful caller draws from.
OnceIds == {"A", "B", "C", "D"}

\* Run ids of the scenarios of the specification's section 8.
ScenarioIds == {"A", "B", "C", "D", "E"}

\* The id whose history is recorded.  The methods and the callers "any" and
\* "once" treat all ids alike (they only compare them), so what the history
\* shows of this id holds of every id.
watch == "A"

\* Largest execution_order the arbitrary caller lets a begin hand out.
MaxOrder == 3

\* Largest number of begin calls the arbitrary caller makes under the watched id.
MaxBegins == 2

VARIABLES
    _run_map,   \* RunLogger._run_map: run id -> stored order / child counter
    _parents,   \* RunLogger._parents: run id -> parent run id
    last,       \* the call made last: its arguments, what it returned, raised
                \* and sent, and what was true of its ids just before it
    begun,      \* history: watch (the watched id) was passed to post_run as run_id
    ended,      \* history: a patch_run of watch completed without raising
    nbegun,     \* history: number of post_run calls naming watch as parent
    maxret,     \* history: largest order returned for a run begun under watch
    rebegun,    \* history: watch was passed to post_run after a run was begun under it
    trace,      \* history: the calls so far, while they follow a scenario
    caller,     \* who calls: "any", "once", "scenario", "siblings", "tree",
                \* "trees", "fibonacci" or "threads" (fixed at the start)
    issued,     \* the calls made so far, as the careful callers record them
    defn,       \* which definition of fibonacci is in effect: "plain" or "checked"
    stack,      \* the call stack of fibonacci: one frame for each call in progress
    uuids,      \* number of run ids drawn with uuid.uuid4() so far
    outcome,    \* how the top-level call of fibonacci ended: "returned" or "raised"
    log,        \* history: the requests fibonacci's logger made, in order
    threads,    \* the call each thread is in, with its position and its locals
    run,        \* feedback pipeline: the ls_schemas.Run the client fetched
    feedback_stats, \* feedback pipeline: the keys of the run's aggregate
                \* feedback stats on the service
    feedbacks,  \* feedback pipeline: key -> number of feedback rows the
                \* service holds for the run
    cell,       \* feedback pipeline: the notebook cell that runs next
    passes,     \* feedback pipeline: number of passes started
    line,       \* polling loops: where the notebook is
    status,     \* polling loops: the local variable status
    file_status, \* polling loops: the status of the uploaded file on the service
    job_status, \* polling loops: the status of the fine-tuning job on the service
    slept       \* polling loops: number of time.sleep(5) since start_time

\* The state of the fibonacci program.
fibvars == <<defn, stack, uuids, outcome, log>>

\* The state of the feedback pipeline and of the polling loops.
feedbackvars == <<run, feedback_stats, feedbacks, cell, passes>>
pollvars == <<line, status, file_status, job_status, slept>>
notebooks == <<feedbackvars, pollvars>>

\* The state of RunLogger, of its callers and of their history.
tracingvars == <<_run_map, _parents, last, begun, ended, nbegun, maxret,
                 rebegun, trace, caller, issued, defn, stack, uuids, outcome,
                 log, threads>>

vars == <<tracingvars, notebooks>>

----------------------------------------------------------------------------
\* Python dict and builtins, as the code uses them.

\* d.get(k, default)
get(d, k, default) == IF k \in DOMAIN d THEN d[k] ELSE default

\* d[k] = v
setitem(d, k, v) == [x \in DOMAIN d \cup {k} |-> IF x = k THEN v ELSE d[x]]

\* d.pop(k, None): the dict that is left
pop(d, k) == [x \in DOMAIN d \ {k} |-> d[x]]

\* max(a, b)
max(a, b) == IF a >= b THEN a ELSE b

\* `if parent_run_id:` -- None is falsy, an id (a non-empty string) is truthy
truthy(parent_run_id) == parent_run_id # None

----------------------------------------------------------------------------
\* RunLogger._get_execution_order

\* Mutant: one counter for all runs -- a run with a parent is numbered by the
\* number of entries the tracker holds.
execution_order_shared(run_map, parent_run_id) ==
    IF truthy(parent_run_id) THEN Cardinality(DOMAIN run_map) + 1 ELSE 1

\* Mutant: the parent's counter is read but not incremented.
execution_order_noinc(run_map, parent_run_id) ==
    IF truthy(parent_run_id) THEN get(run_map, parent_run_id, 0) ELSE 1

\* Mutant: root runs are numbered from 0.
execution_order_zero_root(run_map, parent_run_id) ==
    IF truthy(parent_run_id) THEN get(run_map, parent_run_id, 0) + 1 ELSE 0

\* The value of the local execution_order when the method returns.
execution_order(run_map, parent_run_id) ==
    IF truthy(parent_run_id) THEN get(run_map, parent_run_id, 0) + 1 ELSE 1

\* Mutant: self._run_map.setdefault(run_id, execution_order) -- an entry that
\* exists is kept.
_get_execution_order_setdefault(run_map, parents, run_id, parent_run_id) ==
    LET eo  == execution_order(run_map, parent_run_id)
        rm1 == IF truthy(parent_run_id) THEN setitem(run_map, parent_run_id, eo)
               ELSE run_map
    IN  [run_map |-> IF run_id \in DOMAIN rm1 THEN rm1 ELSE setitem(rm1, run_id, eo),
         parents |-> IF truthy(parent_run_id)
                     THEN setitem(parents, run_id, parent_run_id) ELSE parents,
         returns |-> eo]

\* The method: the two dicts after the call and the value returned.
_get_execution_order(run_map, parents, run_id, parent_run_id) ==
    LET eo  == execution_order(run_map, parent_run_id)
        rm1 == IF truthy(parent_run_id) THEN setitem(run_map, parent_run_id, eo)
               ELSE run_map
    IN  [run_map |-> setitem(rm1, run_id, eo),
         parents |-> IF truthy(parent_run_id)
                     THEN setitem(parents, run_id, parent_run_id) ELSE parents,
         returns |-> eo]

----------------------------------------------------------------------------
\* RunLogger._update_execution_order

\* What the method leaves behind: the two dicts, the local parent_run_id (the
\* popped link) and the exception raised, if any.
Updated(run_map, parents, parent_run_id, raises) ==
    [run_map |-> run_map, parents |-> parents,
     parent_run_id |-> parent_run_id, raises |-> raises]

\* Mutant: the parent's counter is overwritten with the child's value (no max).
_update_execution_order_overwrite(run_map, parents, run_id) ==
    IF run_id \notin DOMAIN run_map
    THEN Updated(run_map, parents, None, "KeyError")
    ELSE LET parent_run_id == get(parents, run_id, None)
         IN  IF ~truthy(parent_run_id)
             THEN Updated(run_map, pop(parents, run_id), parent_run_id, "none")
             ELSE Updated(setitem(run_map, parent_run_id, run_map[run_id]),
                          pop(parents, run_id), parent_run_id, "none")

\* Mutant: nothing is propagated to the parent's counter.
_update_execution_order_noprop(run_map, parents, run_id) ==
    IF run_id \notin DOMAIN run_map
    THEN Updated(run_map, parents, None, "KeyError")
    ELSE Updated(run_map, pop(parents, run_id), get(parents, run_id, None), "none")

\* Mutant: exec_order = self._run_map.get(run_id, 0) -- an unknown id passes.
_update_execution_order_get(run_map, parents, run_id) ==
    LET exec_order    == get(run_map, run_id, 0)
        parent_run_id == get(parents, run_id, None)
    IN  IF ~truthy(parent_run_id)
        THEN Updated(run_map, pop(parents, run_id), parent_run_id, "none")
        ELSE Updated(setitem(run_map, parent_run_id,
                             max(exec_order, get(run_map, parent_run_id, 0))),
                     pop(parents, run_id), parent_run_id, "none")

\* Mutant: self._parents.pop(run_id) -- no default, so a missing link raises.
_update_execution_order_strictpop(run_map, parents, run_id) ==
    IF run_id \notin DOMAIN run_map \/ run_id \notin DOMAIN parents
    THEN Updated(run_map, parents, None, "KeyError")
    ELSE LET parent_run_id == parents[run_id]
         IN  Updated(setitem(run_map, parent_run_id,
                             max(run_map[run_id], get(run_map, parent_run_id, 0))),
                     pop(parents, run_id), parent_run_id, "none")

\* Mutant: the child's value is also propagated to the parent's own parent.
_update_execution_order_ancestors(run_map, parents, run_id) ==
    IF run_id \notin DOMAIN run_map
    THEN Updated(run_map, parents, None, "KeyError")
    ELSE LET exec_order    == run_map[run_id]
             parent_run_id == get(parents, run_id, None)
             grandparent   == get(parents, parent_run_id, None)
             rm1 == IF truthy(parent_run_id)
                    THEN setitem(run_map, parent_run_id,
                                 max(exec_order, get(run_map, parent_run_id, 0)))
                    ELSE run_map
             rm2 == IF truthy(parent_run_id) /\ truthy(grandparent)
                    THEN setitem(rm1, grandparent,
                                 max(exec_order, get(rm1, grandparent, 0)))
                    ELSE rm1
         IN  Updated(rm2, pop(parents, run_id), parent_run_id, "none")

\* The method.  self._run_map[k] raises KeyError when k is no key; the link has
\* been popped by the time the parent's entry is read.
_update_execution_order(run_map, parents, run_id) ==
    IF run_id \notin DOMAIN run_map
    THEN Updated(run_map, parents, None, "KeyError")
    ELSE LET exec_order    == run_map[run_id]
             parent_run_id == get(parents, run_id, None)
             popped        == pop(parents, run_id)
         IN  IF ~truthy(parent_run_id)
             THEN Updated(run_map, popped, parent_run_id, "none")
             ELSE IF parent_run_id \notin DOMAIN run_map
             THEN Updated(run_map, popped, parent_run_id, "KeyError")
             ELSE Updated(setitem(run_map, parent_run_id,
                                  max(exec_order, run_map[parent_run_id])),
                          popped, parent_run_id, "none")

----------------------------------------------------------------------------
\* The calls of a scenario: begin(run_id, parent_run_id) and end(run_id).

begin(run_id, parent_run_id) ==
    [op |-> "begin", run_id |-> run_id, parent_run_id |-> parent_run_id]

end(run_id) == [op |-> "end", run_id |-> run_id, parent_run_id |-> None]

\* Specification, section 8: the first scenario.
Scenario8 ==
    << begin("A", None), begin("B", "A"), begin("C", "A"), end("B"),
       begin("D", "A"), end("C"), end("D"), end("A") >>

\* Specification, section 8: the second scenario (deep nesting).
Scenario9 ==
    << begin("A", None), begin("B", "A"), begin("C", "B"), end("C"),
       end("B"), begin("E", "A") >>

\* The second scenario without B's descendant C.
Scenario9Shallow ==
    << begin("A", None), begin("B", "A"), end("B"), begin("E", "A") >>

\* The calls the scenario caller chooses from.
ScenarioCalls ==
    {Scenario8[i] : i \in 1..Len(Scenario8)} \cup {Scenario9[i] : i \in 1..Len(Scenario9)}

IsPrefix(s, t) == Len(s) <= Len(t) /\ \A i \in 1..Len(s) : s[i] = t[i]

\* The calls of a trace, without their results.
Calls(tr) == [i \in 1..Len(tr) |-> tr[i].call]

\* The values the begin calls of a trace returned, in call order.
Returned(tr) ==
    LET begins == SelectSeq(tr, LAMBDA e : e.call.op = "begin")
    IN  [i \in 1..Len(begins) |-> begins[i].returns]

\* A trace that left the scenarios.
OffScript == << [call |-> begin(None, None), returns |-> 0, raises |-> "none"] >>

\* The trace after one more call: kept while it is a prefix of a scenario, and
\* kept in full for the callers "siblings", "tree" and "trees".
Traced(tr, call, returns, raises) ==
    LET next == Append(tr, [call |-> call, returns |-> returns, raises |-> raises])
    IN  IF \/ caller \in {"siblings", "tree", "trees"}
           \/ /\ tr # OffScript
              /\ (\/ IsPrefix(Calls(next), Scenario8)
                  \/ IsPrefix(Calls(next), Scenario9)
                  \/ IsPrefix(Calls(next), Scenario9Shallow))
        THEN next ELSE OffScript

----------------------------------------------------------------------------
\* RunLogger() and its two public methods.

\* The threads of the concurrent caller.
Threads == {"t1", "t2"}

\* A thread that is in no call.
Idle == [pc |-> "idle", op |-> "none", run_id |-> None, parent_run_id |-> None,
         order |-> 0]

\* The state after RunLogger(), with nothing recorded yet and no program
\* running.
Fresh ==
    /\ _run_map = << >>
    /\ _parents = << >>
    /\ last = [op |-> "init", run_id |-> None, parent_run_id |-> None,
               returns |-> 0, raises |-> "none", sent |-> "none",
               was_begun |-> FALSE, was_ended |-> FALSE, prev_maxret |-> 0]
    /\ begun = FALSE
    /\ ended = FALSE
    /\ nbegun = 0
    /\ maxret = 0
    /\ rebegun = FALSE
    /\ trace = << >>
    /\ issued = {}
    /\ stack = << >>
    /\ uuids = 0
    /\ outcome = "none"
    /\ log = << >>
    /\ threads = [t \in Threads |-> Idle]

\* The other two notebooks are not in use while RunLogger is exercised.
Closed ==
    /\ run = [inputs |-> {}, outputs |-> {}, feedback_stats |-> {}]
    /\ feedback_stats = {}
    /\ feedbacks = << >>
    /\ cell = "none"
    /\ passes = 0
    /\ line = "none"
    /\ status = "none"
    /\ file_status = "none"
    /\ job_status = "none"
    /\ slept = 0

\* What requests.post and requests.patch do: they return the service's
\* response, whatever its status ("ok": the code does not look at it), or
\* raise when no response arrives.
Responses == {"ok", "ConnectionError"}

\* The history after a post_run that returned or raised.
Began(run_id, parent_run_id, returns, raises) ==
    /\ last' = [op |-> "begin", run_id |-> run_id,
                parent_run_id |-> parent_run_id,
                returns |-> returns, raises |-> raises, sent |-> "POST",
                was_begun |-> (run_id = watch /\ begun),
                was_ended |-> (run_id = watch /\ ended),
                prev_maxret |-> IF parent_run_id = watch THEN maxret ELSE 0]
    /\ begun' = (begun \/ run_id = watch)
    /\ nbegun' = IF parent_run_id = watch THEN nbegun + 1 ELSE nbegun
    /\ maxret' = IF parent_run_id = watch THEN max(maxret, returns) ELSE maxret
    /\ rebegun' = (rebegun \/ (run_id = watch /\ nbegun > 0))
    /\ trace' = Traced(trace, begin(run_id, parent_run_id), returns, raises)
    /\ UNCHANGED ended

\* The history after a patch_run that returned or raised; parent_run_id is the
\* link it popped, sent is "none" when it raised before the request.
Ended(run_id, parent_run_id, raises, sent) ==
    /\ last' = [op |-> "end", run_id |-> run_id,
                parent_run_id |-> parent_run_id,
                returns |-> 0, raises |-> raises, sent |-> sent,
                was_begun |-> (run_id = watch /\ begun),
                was_ended |-> (run_id = watch /\ ended),
                prev_maxret |-> 0]
    /\ ended' = (ended \/ (run_id = watch /\ raises = "none"))
    /\ trace' = Traced(trace, end(run_id), 0, raises)
    /\ UNCHANGED <<begun, nbegun, maxret, rebegun>>

\* post_run(data, name, run_id, parent_run_id): _get_execution_order, then the
\* POST that carries the order; response is what requests.post does.
post_run(run_id, parent_run_id, response) ==
    LET r == _get_execution_order(_run_map, _parents, run_id, parent_run_id)
    IN  /\ _run_map' = r.run_map
        /\ _parents' = r.parents
        /\ Began(run_id, parent_run_id, r.returns,
                 IF response = "ok" THEN "none" ELSE response)

\* patch_run(run_id, output, error): _update_execution_order, then the PATCH,
\* which is not reached when the bookkeeping raises; response is what
\* requests.patch does.
patch_run(run_id, response) ==
    LET r == _update_execution_order(_run_map, _parents, run_id)
    IN  /\ _run_map' = r.run_map
        /\ _parents' = r.parents
        /\ Ended(run_id, r.parent_run_id,
                 IF r.raises # "none" THEN r.raises
                 ELSE IF response = "ok" THEN "none" ELSE response,
                 IF r.raises = "none" THEN "PATCH" ELSE "none")

----------------------------------------------------------------------------
\* The callers.

\* The bound on the caller "any".
Bounded(parent_run_id) ==
    /\ execution_order(_run_map, parent_run_id) <= MaxOrder
    /\ parent_run_id = watch => nbegun < MaxBegins

\* A careful caller makes no call twice, begins an id at most once and ends
\* only an id it has begun.
MayIssue(call) ==
    /\ call \notin issued
    /\ call.op = "begin" => \A c \in issued : ~(c.op = "begin" /\ c.run_id = call.run_id)
    /\ call.op = "end" => \E c \in issued : c.op = "begin" /\ c.run_id = call.run_id

\* A call of a careful caller.  The service answers every request of the
\* callers "any", "once", "scenario" and "siblings"; requests that raise are
\* fibonacci's to handle.
Issue(call) ==
    /\ MayIssue(call)
    /\ issued' = issued \cup {call}
    /\ IF call.op = "begin" THEN post_run(call.run_id, call.parent_run_id, "ok")
       ELSE patch_run(call.run_id, "ok")
    /\ UNCHANGED <<caller, notebooks, fibvars, threads>>

Init == Fresh /\ Closed /\ caller \in {"any", "once"} /\ defn = "none"

\* The caller "any" makes every call on every id, in every order.  The caller
\* "once" keeps to the constraints the specification puts on begin and end: a
\* fresh run_id for each begin (never its own parent), end once and after begin.
Next ==
    \/ /\ caller = "any"
       /\ \E run_id \in Ids, parent_run_id \in Ids \cup {None} :
             Bounded(parent_run_id) /\ post_run(run_id, parent_run_id, "ok")
       /\ UNCHANGED <<caller, notebooks, issued, fibvars, threads>>
    \/ /\ caller = "any"
       /\ \E run_id \in Ids : patch_run(run_id, "ok")
       /\ UNCHANGED <<caller, notebooks, issued, fibvars, threads>>
    \/ /\ caller = "once"
       /\ \E run_id \in OnceIds :
             \E parent_run_id \in (OnceIds \ {run_id}) \cup {None} :
                Issue(begin(run_id, parent_run_id))
    \/ /\ caller = "once"
       /\ \E run_id \in OnceIds : Issue(end(run_id))

Spec == Init /\ [][Next]_vars

InitScenario == Fresh /\ Closed /\ caller = "scenario" /\ defn = "none"

\* The caller "scenario" is a careful caller that makes the calls of the
\* specification's scenarios, in any order.
NextScenario ==
    \/ \E call \in ScenarioCalls : call.op = "begin" /\ Issue(call)
    \/ \E call \in ScenarioCalls : call.op = "end" /\ Issue(call)

SpecScenario == InitScenario /\ [][NextScenario]_vars

\* The runs the caller "siblings" begins under the run "A".
SiblingIds == {"B", "C", "D"}

\* The calls of the caller "siblings".
SiblingCalls ==
    {begin("A", None), end("A")}
        \cup {begin(x, "A") : x \in SiblingIds} \cup {end(x) : x \in SiblingIds}

InitSiblings == Fresh /\ Closed /\ caller = "siblings" /\ defn = "none"

\* The caller "siblings" is a careful caller that begins "A", begins runs under
\* it and ends them all, the runs under "A" overlapping in every possible way.
NextSiblings ==
    \/ \E call \in SiblingCalls :
          /\ call.op = "begin"
          /\ truthy(call.parent_run_id) => begin(call.parent_run_id, None) \in issued
          /\ Issue(call)
    \/ \E call \in SiblingCalls : call.op = "end" /\ Issue(call)

SpecSiblings == InitSiblings /\ [][NextSiblings]_vars

\* The position of a call in a trace, 0 when it is not there.
At(tr, call) ==
    IF \E i \in 1..Len(tr) : tr[i].call = call
    THEN CHOOSE i \in 1..Len(tr) : tr[i].call = call
    ELSE 0

\* x and y were both begun under "A", x before y.
BegunBefore(tr, x, y) ==
    At(tr, begin(x, "A")) > 0 /\ At(tr, begin(x, "A")) < At(tr, begin(y, "A"))

\* x and y were both ended, x before y.
EndedBefore(tr, x, y) ==
    At(tr, end(x)) > 0 /\ At(tr, end(x)) < At(tr, end(y))

\* The execution_order that the begin of x under "A" returned.
OrderOf(tr, x) == tr[At(tr, begin(x, "A"))].returns

----------------------------------------------------------------------------
\* fibonacci, which logs each of its calls as a run of the module's logger.

\* Largest whole n the top-level caller passes to fibonacci.
MaxN == 4

\* The arguments of the top-level call, in tenths (23 is the notebook's 2.3):
\* the whole numbers up to MaxN, a negative one, and two with a fraction, for
\* which the recursion goes below 0.
FibInputs == {10 * k : k \in 0..MaxN} \cup {-10, 23, 33}

\* str(uuid.uuid4()): the k-th id drawn; no two are equal.
UuidPool == << "A", "B", "C", "D", "E", "F", "G", "H",
               "I", "J", "K", "L", "M", "N", "O" >>

uuid4(k) == UuidPool[k]

\* The logger's state and history.
loggervars == <<_run_map, _parents, last, begun, ended, nbegun, maxret,
                rebegun, trace>>

\* One call of fibonacci in progress: its arguments, its local run_id and the
\* statement it is at: "post_run", "first" and "second" (in the call of
\* fibonacci(n - 1) and fibonacci(n - 2)), "patch_run", "except".
Frame(n, run_id, parent_run_id, pc) ==
    [n |-> n, run_id |-> run_id, parent_run_id |-> parent_run_id, pc |-> pc]

\* The innermost call and the calls around it.
Top(stk) == stk[Len(stk)]

Callers(stk) == SubSeq(stk, 1, Len(stk) - 1)

\* The innermost call moves to another statement.
Moved(stk, pc) == [stk EXCEPT ![Len(stk)].pc = pc]

\* The program after a step: the stack, the ids drawn, the top-level outcome.
Program(stk, drawn, out) == [stack |-> stk, uuids |-> drawn, outcome |-> out]

\* fibonacci(n, depth + 1, parent_run_id=...) is entered: run_id is drawn.
Called(stk, drawn, n, parent_run_id) ==
    Program(Append(stk, Frame(n, uuid4(drawn + 1), parent_run_id, "post_run")),
            drawn + 1, "none")

\* The try block after post_run has returned, up to its first call: the
\* ValueError of the second definition, the base case, or fibonacci(n - 1).
Tried(stk, drawn) ==
    LET f == Top(stk)
    IN  IF defn = "checked" /\ f.n < 0 THEN Program(Moved(stk, "except"), drawn, "none")
        ELSE IF f.n <= 10 THEN Program(Moved(stk, "patch_run"), drawn, "none")
        ELSE Called(Moved(stk, "first"), drawn, f.n - 10, f.run_id)

\* The innermost call returns: its caller goes on with fibonacci(n - 2), or,
\* having both results, with patch_run; the top-level call has returned.
Return(stk, drawn) ==
    LET rest == Callers(stk)
    IN  IF rest = << >> THEN Program(rest, drawn, "returned")
        ELSE IF Top(rest).pc = "first"
        THEN Called(Moved(rest, "second"), drawn, Top(rest).n - 20, Top(rest).run_id)
        ELSE Program(Moved(rest, "patch_run"), drawn, "none")

\* An exception leaves the innermost call: it is caught by the except block of
\* its caller, or reaches the top-level caller.
Raise(stk, drawn) ==
    LET rest == Callers(stk)
    IN  IF rest = << >> THEN Program(rest, drawn, "raised")
        ELSE Program(Moved(rest, "except"), drawn, "none")

Continue(next) ==
    /\ stack' = next.stack
    /\ uuids' = next.uuids
    /\ outcome' = next.outcome

\* A request of the logger, as the log keeps it: error is whether patch_run was
\* given an error, raised whether the call of the logger raised.
Request(method, run_id, parent_run_id, order, error, raised) ==
    [method |-> method, run_id |-> run_id, parent_run_id |-> parent_run_id,
     execution_order |-> order, error |-> error, raised |-> raised]

\* The top-level call fibonacci(n).
fibonacci(n) ==
    /\ caller = "fibonacci" /\ stack = << >> /\ outcome = "none" /\ uuids = 0
    /\ Continue(Called(stack, uuids, n, None))
    /\ UNCHANGED <<loggervars, log, defn, caller, notebooks, issued, threads>>

\* logger.post_run(...), outside the try block: when it raises the call is
\* left at once; when it returns the try block is entered.
fibonacci_post_run ==
    /\ caller = "fibonacci" /\ stack # << >> /\ Top(stack).pc = "post_run"
    /\ \E response \in Responses :
          /\ post_run(Top(stack).run_id, Top(stack).parent_run_id, response)
          /\ log' = Append(log, Request("POST", Top(stack).run_id,
                                        Top(stack).parent_run_id, last'.returns,
                                        FALSE, last'.raises # "none"))
          /\ Continue(IF last'.raises = "none" THEN Tried(stack, uuids)
                      ELSE Raise(stack, uuids))
    /\ UNCHANGED <<defn, caller, notebooks, issued, threads>>

\* logger.patch_run(run_id, output=...) at the end of the try block, then
\* return result; when patch_run raises, the except block is entered.
fibonacci_patch_run ==
    /\ caller = "fibonacci" /\ stack # << >> /\ Top(stack).pc = "patch_run"
    /\ \E response \in Responses :
          /\ patch_run(Top(stack).run_id, response)
          /\ log' = Append(log, Request("PATCH", Top(stack).run_id, None, 0,
                                        FALSE, last'.raises # "none"))
          /\ Continue(IF last'.raises = "none" THEN Return(stack, uuids)
                      ELSE Program(Moved(stack, "except"), uuids, "none"))
    /\ UNCHANGED <<defn, caller, notebooks, issued, threads>>

\* Mutant: the except block logs the error and does not raise again.
fibonacci_except_noraise ==
    /\ caller = "fibonacci" /\ stack # << >> /\ Top(stack).pc = "except"
    /\ \E response \in Responses :
          /\ patch_run(Top(stack).run_id, response)
          /\ log' = Append(log, Request("PATCH", Top(stack).run_id, None, 0,
                                        TRUE, last'.raises # "none"))
          /\ Continue(IF last'.raises = "none" THEN Return(stack, uuids)
                      ELSE Raise(stack, uuids))
    /\ UNCHANGED <<defn, caller, notebooks, issued, threads>>

\* except Exception as e: logger.patch_run(run_id, error=str(e)); raise.  The
\* call is left with an exception whether patch_run returns or raises.
fibonacci_except ==
    /\ caller = "fibonacci" /\ stack # << >> /\ Top(stack).pc = "except"
    /\ \E response \in Responses :
          /\ patch_run(Top(stack).run_id, response)
          /\ log' = Append(log, Request("PATCH", Top(stack).run_id, None, 0,
                                        TRUE, last'.raises # "none"))
          /\ Continue(Raise(stack, uuids))
    /\ UNCHANGED <<defn, caller, notebooks, issued, threads>>

InitFib == Fresh /\ Closed /\ caller = "fibonacci" /\ defn \in {"plain", "checked"}

NextFib ==
    \/ \E n \in FibInputs : fibonacci(n)
    \/ fibonacci_post_run
    \/ fibonacci_patch_run
    \/ fibonacci_except

SpecFib == InitFib /\ [][NextFib]_vars

\* The callers of Spec and fibonacci together.
InitAll == Init \/ InitFib

NextAll == Next \/ NextFib

SpecAll == InitAll /\ [][NextAll]_vars

\* The POST and the PATCH requests of a log, and the ids of the runs they are
\* for, in order.
Posts(lg) == SelectSeq(lg, LAMBDA q : q.method = "POST")

Patches(lg) == SelectSeq(lg, LAMBDA q : q.method = "PATCH")

RunIds(lg) == [i \in 1..Len(lg) |-> lg[i].run_id]

\* Largest of a non-empty set of numbers.
Largest(S) == CHOOSE m \in S : \A x \in S : x <= m

----------------------------------------------------------------------------
\* post_run and patch_run called from two threads on one RunLogger.  No lock
\* is taken anywhere in the class, so a thread can be preempted between any
\* two accesses to the dicts; each access by itself is atomic.

\* The history the two methods leave.
histvars == <<last, begun, ended, nbegun, maxret, rebegun, trace>>

\* Some thread is in a call for run_id.
InFlight(run_id) ==
    \E u \in Threads : threads[u].pc # "idle" /\ threads[u].run_id = run_id

\* The begin of run_id has been called and has returned.
Completed(run_id) ==
    /\ \E c \in issued : c.op = "begin" /\ c.run_id = run_id
    /\ ~InFlight(run_id)

\* Thread t goes to statement pc with its local order set.
Step(t, pc, order) == [threads EXCEPT ![t].pc = pc, ![t].order = order]

\* Thread t calls post_run or patch_run.  The caller is a careful one: it
\* begins a run under a parent whose begin has returned and ends a run whose
\* begin has returned.  Line 497: `if parent_run_id:`, else execution_order = 1.
thread_call(t) ==
    /\ caller = "threads" /\ threads[t].pc = "idle"
    /\ \E call \in SiblingCalls :
          /\ MayIssue(call)
          /\ call.op = "begin" /\ truthy(call.parent_run_id) =>
                Completed(call.parent_run_id)
          /\ call.op = "end" => Completed(call.run_id)
          /\ issued' = issued \cup {call}
          /\ threads' = [threads EXCEPT ![t] =
                [pc |-> IF call.op = "end" THEN "lookup"
                        ELSE IF truthy(call.parent_run_id) THEN "link" ELSE "store",
                 op |-> call.op, run_id |-> call.run_id,
                 parent_run_id |-> call.parent_run_id, order |-> 1]]
    /\ UNCHANGED <<_run_map, _parents, histvars, caller, notebooks, fibvars>>

\* Line 498: self._parents[run_id] = parent_run_id
thread_link(t) ==
    /\ caller = "threads" /\ threads[t].pc = "link"
    /\ _parents' = setitem(_parents, threads[t].run_id, threads[t].parent_run_id)
    /\ threads' = Step(t, "get", threads[t].order)
    /\ UNCHANGED <<_run_map, histvars, caller, notebooks, issued, fibvars>>

\* Lines 499-500: execution_order = self._run_map.get(parent_run_id, 0), += 1
thread_get(t) ==
    /\ caller = "threads" /\ threads[t].pc = "get"
    /\ threads' = Step(t, "set", execution_order(_run_map, threads[t].parent_run_id))
    /\ UNCHANGED <<_run_map, _parents, histvars, caller, notebooks, issued, fibvars>>

\* Line 501: self._run_map[parent_run_id] = execution_order
thread_set(t) ==
    /\ caller = "threads" /\ threads[t].pc = "set"
    /\ _run_map' = setitem(_run_map, threads[t].parent_run_id, threads[t].order)
    /\ threads' = Step(t, "store", threads[t].order)
    /\ UNCHANGED <<_parents, histvars, caller, notebooks, issued, fibvars>>

\* Lines 504-505: self._run_map[run_id] = execution_order; return; the POST.
thread_store(t) ==
    /\ caller = "threads" /\ threads[t].pc = "store"
    /\ _run_map' = setitem(_run_map, threads[t].run_id, threads[t].order)
    /\ Began(threads[t].run_id, threads[t].parent_run_id, threads[t].order, "none")
    /\ threads' = [threads EXCEPT ![t] = Idle]
    /\ UNCHANGED <<_parents, caller, notebooks, issued, fibvars>>

\* Line 508: exec_order = self._run_map[run_id]
thread_lookup(t) ==
    /\ caller = "threads" /\ threads[t].pc = "lookup"
    /\ IF threads[t].run_id \in DOMAIN _run_map
       THEN /\ threads' = Step(t, "pop", _run_map[threads[t].run_id])
            /\ UNCHANGED histvars
       ELSE /\ threads' = [threads EXCEPT ![t] = Idle]
            /\ Ended(threads[t].run_id, None, "KeyError", "none")
    /\ UNCHANGED <<_run_map, _parents, caller, notebooks, issued, fibvars>>

\* Lines 509-510: parent_run_id = self._parents.pop(run_id, None) and
\* `if parent_run_id:`; without a parent the method returns and the PATCH is sent.
thread_pop(t) ==
    /\ caller = "threads" /\ threads[t].pc = "pop"
    /\ _parents' = pop(_parents, threads[t].run_id)
    /\ IF truthy(get(_parents, threads[t].run_id, None))
       THEN /\ threads' = [threads EXCEPT ![t].pc = "max",
                              ![t].parent_run_id = _parents[threads[t].run_id]]
            /\ UNCHANGED histvars
       ELSE /\ threads' = [threads EXCEPT ![t] = Idle]
            /\ Ended(threads[t].run_id, None, "none", "PATCH")
    /\ UNCHANGED <<_run_map, caller, notebooks, issued, fibvars>>

\* Line 511, right-hand side: max(exec_order, self._run_map[parent_run_id])
thread_max(t) ==
    /\ caller = "threads" /\ threads[t].pc = "max"
    /\ threads' = Step(t, "raise", max(threads[t].order,
                                       _run_map[threads[t].parent_run_id]))
    /\ UNCHANGED <<_run_map, _parents, histvars, caller, notebooks, issued, fibvars>>

\* Line 511, the store: self._run_map[parent_run_id] = ...; return; the PATCH.
thread_raise(t) ==
    /\ caller = "threads" /\ threads[t].pc = "raise"
    /\ _run_map' = setitem(_run_map, threads[t].parent_run_id, threads[t].order)
    /\ Ended(threads[t].run_id, threads[t].parent_run_id, "none", "PATCH")
    /\ threads' = [threads EXCEPT ![t] = Idle]
    /\ UNCHANGED <<_parents, caller, notebooks, issued, fibvars>>

InitThreads == Fresh /\ Closed /\ caller = "threads" /\ defn = "none"

NextThreads ==
    \E t \in Threads :
        \/ thread_call(t)
        \/ thread_link(t)
        \/ thread_get(t)
        \/ thread_set(t)
        \/ thread_store(t)
        \/ thread_lookup(t)
        \/ thread_pop(t)
        \/ thread_max(t)
        \/ thread_raise(t)

SpecThreads == InitThreads /\ [][NextThreads]_vars

\* No thread is in a call.
Quiescent == \A t \in Threads : threads[t].pc = "idle"

----------------------------------------------------------------------------
\* Callers that build trees of runs: every run is begun once, under a run of
\* its tree that was begun before it, and ended at most once, after its begin.

\* The runs of the tree of the caller "tree"; "A" is its root.
TreeIds == {"A", "B", "C", "D"}

\* The runs of the two trees of the caller "trees", with roots "A" and "P".
Tree1Ids == {"A", "B", "C"}

Tree2Ids == {"P", "Q"}

\* The run_id was passed to begin.
Begun(run_id) == \E c \in issued : c.op = "begin" /\ c.run_id = run_id

\* A call on a tree with the given runs and root.
TreeCall(ids, root) ==
    \/ Issue(begin(root, None))
    \/ \E run_id \in ids \ {root} : \E parent_run_id \in ids \ {run_id} :
          Begun(parent_run_id) /\ Issue(begin(run_id, parent_run_id))
    \/ \E run_id \in ids : Issue(end(run_id))

InitTree == Fresh /\ Closed /\ caller = "tree" /\ defn = "none"

NextTree == TreeCall(TreeIds, "A")

SpecTree == InitTree /\ [][NextTree]_vars

InitTrees == Fresh /\ Closed /\ caller = "trees" /\ defn = "none"

\* The calls on the two trees interleave in every way; each call is atomic.
NextTrees ==
    \/ TreeCall(Tree1Ids, "A")
    \/ TreeCall(Tree2Ids, "P")

SpecTrees == InitTrees /\ [][NextTrees]_vars

\* The part of a trace that is about the given runs.
Of(tr, ids) == SelectSeq(tr, LAMBDA e : e.call.run_id \in ids)

\* What a sequence of calls returns and raises on a RunLogger in the given
\* state, nothing else being called in between.
RECURSIVE Replay(_, _, _)
Replay(calls, run_map, parents) ==
    IF calls = << >> THEN << >>
    ELSE LET c == Head(calls)
             b == _get_execution_order(run_map, parents, c.run_id, c.parent_run_id)
             e == _update_execution_order(run_map, parents, c.run_id)
         IN  IF c.op = "begin"
             THEN << [call |-> c, returns |-> b.returns, raises |-> "none"] >>
                     \o Replay(Tail(calls), b.run_map, b.parents)
             ELSE << [call |-> c, returns |-> 0, raises |-> e.raises] >>
                     \o Replay(Tail(calls), e.run_map, e.parents)

\* What a sequence of calls returns and raises on a fresh RunLogger.
Alone(calls) == Replay(calls, << >>, << >>)

\* The position of the begin and of the end of a run in a trace (0: none), the
\* parent it was begun under and the order its begin returned.
BeginAt(tr, x) ==
    IF \E i \in 1..Len(tr) : tr[i].call.op = "begin" /\ tr[i].call.run_id = x
    THEN CHOOSE i \in 1..Len(tr) : tr[i].call.op = "begin" /\ tr[i].call.run_id = x
    ELSE 0

EndAt(tr, x) == At(tr, end(x))

ParentIn(tr, x) ==
    IF BeginAt(tr, x) > 0 THEN tr[BeginAt(tr, x)].call.parent_run_id ELSE None

OrderAt(tr, x) == tr[BeginAt(tr, x)].returns

\* x is r or was begun below r.
RECURSIVE Below(_, _, _)
Below(tr, x, r) ==
    x = r \/ (truthy(ParentIn(tr, x)) /\ Below(tr, ParentIn(tr, x), r))

----------------------------------------------------------------------------
\* The claims.  "A begin under watch" is a post_run naming the watched id as
\* parent_run_id.

BeginUnderWatch == last.op = "begin" /\ last.parent_run_id = watch

\* C1 as stated: the k-th begin that names one parent returns k (1..N in call
\* order, no gaps, no repeats).  (Read for the caller that keeps to the
\* constraints on begin and end.)
C1_KthBeginReturnsK ==
    caller = "once" /\ BeginUnderWatch => last.returns = nbegun

\* C1 amended: the k-th begin that names one parent returns at least k, as long
\* as the parent itself was not passed to begin after the first of them; it is
\* not k in general (the first child of a run begun as root gets 2).
C1_KthBeginReturnsAtLeastK ==
    BeginUnderWatch /\ ~rebegun => last.returns >= nbegun

\* C1 witness: the second begin under a parent returned more than 2.
C1_Witness ==
    BeginUnderWatch /\ ~rebegun /\ nbegun = 2 /\ last.returns > nbegun

\* C2: a begin without parent_run_id returns 1, whatever preceded it.
C2_RootReturnsOne ==
    last.op = "begin" /\ ~truthy(last.parent_run_id) => last.returns = 1

\* C2 witness: a root begin of an id that was begun before and has children.
C2_Witness ==
    /\ last.op = "begin" /\ ~truthy(last.parent_run_id)
    /\ last.was_begun /\ nbegun > 0 /\ last.returns = 1

\* C3 as stated: in every state the counter stored for a parent is at least
\* every order ever returned for a run begun under it, so a sibling begun later
\* gets more than every child begun before.  (Read for the caller that keeps
\* to the constraints on begin and end: no id is begun twice.)
C3_CounterCoversReturned ==
    caller = "once" =>
        /\ nbegun > 0 => get(_run_map, watch, 0) >= maxret
        /\ BeginUnderWatch => last.returns > last.prev_maxret

\* C3 amended: the same, for a parent that was not itself passed to begin after
\* a run was begun under it (that begin resets the parent's counter).
C3_CounterCoversReturnedUnlessRebegun ==
    /\ nbegun > 0 /\ ~rebegun => get(_run_map, watch, 0) >= maxret
    /\ BeginUnderWatch /\ ~rebegun => last.returns > last.prev_maxret

\* C3 witness: a child of a parent with two children was just ended, and the
\* parent's counter covers every order returned under it.
C3_Witness ==
    /\ last.op = "end" /\ last.raises = "none" /\ last.parent_run_id = watch
    /\ nbegun >= 2 /\ ~rebegun /\ get(_run_map, watch, 0) >= maxret

\* C4 as stated: the orders returned by the begins that name one parent are
\* pairwise distinct and strictly increasing in call order, under every
\* interleaving of other calls: each is greater than all returned before.
\* (Read for the caller that keeps to the constraints on begin and end.)
C4_ReturnsStrictlyIncrease ==
    caller = "once" /\ BeginUnderWatch => last.returns > last.prev_maxret

\* C4 amended: the same, for every interleaving that does not pass the parent
\* itself to begin between them.
C4_ReturnsStrictlyIncreaseUnlessRebegun ==
    BeginUnderWatch /\ ~rebegun => last.returns > last.prev_maxret

\* C4 witness: a second begin under a parent that was itself begun and ended.
C4_Witness ==
    /\ BeginUnderWatch /\ nbegun = 2 /\ ~rebegun /\ begun /\ ended
    /\ last.returns > last.prev_maxret

\* C5 as stated: a begin of a run_id that was passed to begin before fails and
\* sends and stores nothing.
C5_DuplicateBeginFails ==
    last.op = "begin" /\ last.was_begun => last.raises # "none" /\ last.sent = "none"

\* C5 amended: a begin of a run_id that was passed to begin before raises
\* nothing and is carried out like a first one: the POST is sent, the order
\* returned is stored over the id's entry, and the parent link is overwritten
\* when a parent is given.
C5_DuplicateBeginOverwrites ==
    last.op = "begin" /\ last.was_begun =>
        /\ last.raises = "none" /\ last.sent = "POST"
        /\ last.run_id \in DOMAIN _run_map
        /\ _run_map[last.run_id] = last.returns
        /\ truthy(last.parent_run_id) =>
              /\ last.run_id \in DOMAIN _parents
              /\ _parents[last.run_id] = last.parent_run_id

\* C5 witness: a second begin of an id, now under a parent, after a run was
\* begun under that id.
C5_Witness ==
    /\ last.op = "begin" /\ last.was_begun /\ truthy(last.parent_run_id)
    /\ nbegun > 0 /\ get(_parents, last.run_id, None) = last.parent_run_id

\* C6 as stated: an end of an id that was never passed to begin fails, also
\* when the id has appeared as a parent_run_id.
C6_EndOfUnknownFails ==
    last.op = "end" /\ last.run_id = watch /\ ~begun =>
        last.raises # "none" /\ last.sent = "none"

\* C6 amended: an end of an id that was never passed to begin fails (KeyError,
\* nothing sent) exactly when the id has never appeared as a parent_run_id
\* either; when it has, the call raises nothing and sends the PATCH.  Either
\* way no counter and no parent link changes.
C6_EndOfUnknownFailsUnlessParent ==
    [][ (last'.op = "end" /\ last'.run_id = watch /\ ~begun) =>
            /\ last'.raises = (IF nbegun = 0 THEN "KeyError" ELSE "none")
            /\ last'.sent = (IF nbegun = 0 THEN "none" ELSE "PATCH")
            /\ _run_map' = _run_map
            /\ _parents' = _parents ]_vars

\* C6 witness: an id known only as a parent was ended without an error.
C6_Witness ==
    /\ last.op = "end" /\ last.run_id = watch /\ ~begun /\ nbegun > 0
    /\ last.raises = "none" /\ last.sent = "PATCH"

\* C7 as stated: a second end of an id fails and sends no update.
C7_SecondEndFails ==
    last.op = "end" /\ last.was_ended => last.raises # "none" /\ last.sent = "none"

\* C7 amended: a second end of an id raises nothing and sends another PATCH:
\* nothing records that the run was closed.  It changes no counter and no
\* parent link, unless the id was passed to begin with a parent in between.
C7_SecondEndPatchesAgain ==
    [][ (last'.op = "end" /\ last'.was_ended) =>
            /\ last'.raises = "none" /\ last'.sent = "PATCH"
            /\ last'.run_id \notin DOMAIN _parents =>
                  _run_map' = _run_map /\ _parents' = _parents ]_vars

\* C7 witness: an id with a parent was ended a second time, no begin of it in
\* between (nothing was left to pop).
C7_Witness ==
    /\ last.op = "end" /\ last.was_ended /\ last.sent = "PATCH"
    /\ ~truthy(last.parent_run_id) /\ begun /\ ~rebegun /\ nbegun > 0

Succeeded(tr) == \A i \in 1..Len(tr) : tr[i].raises = "none"

\* C8 as stated: the first scenario returns 1, 1, 2, 3 for A, B, C, D and every
\* end succeeds.
C8_ScenarioReturns1123 ==
    Calls(trace) = Scenario8 => Returned(trace) = <<1, 1, 2, 3>> /\ Succeeded(trace)

\* C8 amended: the first scenario returns 1, 2, 3, 4 for A, B, C, D and every
\* end succeeds.
C8_ScenarioReturns1234 ==
    Calls(trace) = Scenario8 => Returned(trace) = <<1, 2, 3, 4>> /\ Succeeded(trace)

\* C8 witness: the first scenario has run to its end.
C8_Witness ==
    Calls(trace) = Scenario8 /\ last.op = "end" /\ last.run_id = "A" /\ get(_run_map, "D", 0) = 4

\* C9 as stated: the second scenario returns 1, 1, 1, 2 for A, B, C, E.
C9_DeepReturns1112 ==
    Calls(trace) = Scenario9 => Returned(trace) = <<1, 1, 1, 2>>

\* C9 amended: the second scenario returns 1, 2, 3, 4 for A, B, C, E; E's order
\* is one more than the largest order under B, so it does depend on B's
\* descendants: without C the same calls return 1, 2, 3.
C9_DeepReturns1234 ==
    /\ Calls(trace) = Scenario9 => Returned(trace) = <<1, 2, 3, 4>>
    /\ Calls(trace) = Scenario9Shallow => Returned(trace) = <<1, 2, 3>>

\* C9 witness: the second scenario has run to its end.
C9_Witness == Calls(trace) = Scenario9 /\ last.run_id = "E" /\ last.returns = 4

\* C10: a begin or end changes no stored order and no parent link of any id
\* other than its run_id and that run's direct parent, and no parent link but
\* the run_id's own.
C10_Frame ==
    [][ /\ \A x \in ScenarioIds :
              x # last'.run_id /\ x # last'.parent_run_id =>
                  get(_run_map', x, 0) = get(_run_map, x, 0)
        /\ \A x \in ScenarioIds :
              x # last'.run_id => get(_parents', x, None) = get(_parents, x, None)
      ]_vars

\* C10 witness: a run was ended under its parent while another run, with a
\* parent link of its own to a different parent, keeps its entries.
C10_Witness ==
    /\ last.op = "end" /\ truthy(last.parent_run_id)
    /\ \E x \in DOMAIN _parents :
          /\ x # last.run_id /\ x # last.parent_run_id
          /\ _parents[x] # last.parent_run_id
          /\ get(_run_map, x, 0) > 1

\* C11 as stated: a run id goes unknown -> open -> closed only.  Once an end of
\* the id has happened no later begin or end of it succeeds, an end of an id
\* that was never begun fails, and a begin of an id that was begun fails.
C11_LifecycleOneWay ==
    /\ last.op \in {"begin", "end"} /\ last.was_ended => last.raises # "none"
    /\ last.op = "end" /\ last.run_id = watch /\ ~last.was_begun => last.raises # "none"
    /\ last.op = "begin" /\ last.was_begun => last.raises # "none"

\* C11 amended: RunLogger keeps no lifecycle state.  A begin succeeds in every
\* state of its run_id (unknown, open or closed) and leaves an entry for it; an
\* end succeeds exactly when the id has an entry in _run_map (it was named
\* run_id or parent_run_id by an earlier begin), any number of times.  So
\* closed is not absorbing and an open id can be opened again.
C11_NoLifecycle ==
    [][ /\ last'.op = "begin" =>
              last'.raises = "none" /\ last'.run_id \in DOMAIN _run_map'
        /\ last'.op = "end" =>
              (last'.raises = "none" <=> last'.run_id \in DOMAIN _run_map)
        /\ last'.op = "end" /\ last'.raises # "none" =>
              last'.raises = "KeyError" /\ last'.sent = "none" ]_vars

\* C11 witness: an id that was begun and ended has been begun again, under a
\* parent, without an error.
C11_Witness ==
    /\ last.op = "begin" /\ last.run_id = watch /\ last.was_ended
    /\ last.raises = "none" /\ watch \in DOMAIN _parents

\* C12 as stated: after end(run_id) the order stored for run_id does not change
\* under any later begin or end, also not under a begin that names run_id as
\* parent.  (Read for the caller that keeps to the constraints on begin and end.)
C12_StoredOrderFrozenAfterEnd ==
    [][ caller = "once" /\ ended =>
            get(_run_map', watch, 0) = get(_run_map, watch, 0) ]_vars

\* C12 amended: the value stored for run_id is also the counter of its
\* children, so it keeps changing after end(run_id): a begin naming run_id as
\* parent raises it by one, the end of a child raises it to the child's value
\* when that is larger, a begin of run_id itself overwrites it with the order
\* returned, and no other call changes it.
C12_StoredOrderAfterEnd ==
    [][ ended =>
          LET before == get(_run_map, watch, 0)
              after  == get(_run_map', watch, 0)
          IN  /\ last'.op = "begin" /\ last'.parent_run_id = watch =>
                    after = before + 1
              /\ last'.op = "begin" /\ last'.run_id = watch =>
                    after = last'.returns
              /\ last'.op = "end" /\ last'.parent_run_id = watch =>
                    after = max(before, get(_run_map, last'.run_id, 0))
              /\ last'.run_id # watch /\ last'.parent_run_id # watch =>
                    after = before ]_vars

\* C12 witness: a run was begun under an id that had been ended, and the value
\* stored for that id is now the order of the new child.
C12_Witness ==
    /\ ended /\ BeginUnderWatch /\ last.run_id # watch
    /\ get(_run_map, watch, 0) = last.returns /\ last.returns > 1

\* C15 as stated: in every state every parent link points at an id that has
\* been passed to begin as run_id.
C15_ParentWasBegun ==
    \A x \in DOMAIN _parents : _parents[x] = watch => begun

\* C15 amended: begin stores the link for whatever parent_run_id it is given,
\* also one that was never passed to begin as run_id; what holds is that every
\* parent link points at an id with a counter of at least 1 in _run_map (the
\* begin that stored the link created or incremented it).
C15_ParentHasCounter ==
    \A x \in DOMAIN _parents :
        _parents[x] \in DOMAIN _run_map /\ _run_map[_parents[x]] >= 1

\* C15 witness: a link to a parent that was never begun: its only entry is the
\* counter of its children.
C15_Witness ==
    /\ ~begun /\ BeginUnderWatch /\ last.run_id # watch
    /\ get(_parents, last.run_id, None) = watch /\ get(_run_map, watch, 0) = nbegun

\* C17: begin(run_id, parent) with a parent returns c + 1, c being the counter
\* stored for the parent (0 without an entry), stores c + 1 as the parent's
\* counter and as run_id's entry and records the parent link; without a parent
\* it returns and stores 1 and records no link (the links stay as they were).
C17_BeginStores ==
    [][ last'.op = "begin" =>
          LET c == get(_run_map, last'.parent_run_id, 0)
          IN  IF truthy(last'.parent_run_id)
              THEN /\ last'.returns = c + 1
                   /\ get(_run_map', last'.parent_run_id, 0) = c + 1
                   /\ get(_run_map', last'.run_id, 0) = c + 1
                   /\ get(_parents', last'.run_id, None) = last'.parent_run_id
              ELSE /\ last'.returns = 1
                   /\ get(_run_map', last'.run_id, 0) = 1
                   /\ _parents' = _parents ]_vars

\* C17 witness: a begin under a parent whose counter stood at 2 returned 3 and
\* left 3 with the parent and with the run, which had an entry before.
C17_Witness ==
    /\ last.op = "begin" /\ truthy(last.parent_run_id) /\ last.returns = 3
    /\ last.was_begun /\ last.run_id # last.parent_run_id
    /\ get(_run_map, last.parent_run_id, 0) = 3
    /\ get(_run_map, last.run_id, 0) = 3
    /\ get(_parents, last.run_id, None) = last.parent_run_id

C14_PatchedAtMostOnce ==
    \A i, j \in 1..Len(log) :
        i < j /\ log[i].method = "PATCH" /\ log[j].method = "PATCH" =>
            log[i].run_id # log[j].run_id

\* C18: the end of a run with a recorded parent sets the parent's counter to
\* the larger of the parent's counter and the run's stored value and removes
\* the run's link; the parent's counter does not decrease and is afterwards at
\* least the run's value.  So when a call of fibonacci comes to end its run,
\* all runs begun below it having been dealt with innermost first, the value
\* stored for the run is the largest order handed out since (and including)
\* its own.
C18_EndRaisesParent ==
    [][ /\ last'.op = "end" /\ truthy(last'.parent_run_id) /\ last'.raises # "KeyError" =>
              LET p == last'.parent_run_id
                  x == last'.run_id
              IN  /\ _run_map'[p] = max(_run_map[p], _run_map[x])
                  /\ _run_map'[p] >= _run_map[p]
                  /\ _run_map'[p] >= _run_map'[x]
                  /\ x \notin DOMAIN _parents'
                  /\ \A y \in DOMAIN _run_map' : y # p => _run_map'[y] = _run_map[y]
        /\ stack' # << >> /\ Top(stack').pc \in {"patch_run", "except"} =>
              \E i \in 1..Len(log') :
                 /\ log'[i].method = "POST" /\ log'[i].run_id = Top(stack').run_id
                 /\ _run_map'[Top(stack').run_id] =
                       Largest({log'[j].execution_order : j \in i..Len(log')})
      ]_vars

\* C18 witness: a run was ended under a parent whose counter was ahead of the
\* run's stored value, and kept its counter.
C18_Witness ==
    /\ last.op = "end" /\ truthy(last.parent_run_id) /\ last.raises = "none"
    /\ last.run_id # last.parent_run_id
    /\ _run_map[last.parent_run_id] > _run_map[last.run_id]

\* C19: the k-th run that a fibonacci(n) begins gets execution_order k: the
\* orders are the numbers 1..N in the order of the calls (the preorder of the
\* call tree), no two runs share one, and each run's parent is the run of the
\* call that made it.
C19_PreorderNumbering ==
    /\ \A k \in 1..Len(Posts(log)) :
          /\ Posts(log)[k].execution_order = k
          /\ Posts(log)[k].run_id = uuid4(k)
    /\ \A i \in 1..Len(stack) :
          stack[i].parent_run_id = IF i = 1 THEN None ELSE stack[i - 1].run_id
    /\ \A k \in 1..Len(log) :
          log[k].method = "POST" /\ Len(stack) > 1 /\ log[k].run_id = Top(stack).run_id =>
              log[k].parent_run_id = stack[Len(stack) - 1].run_id

\* C19 witness: fibonacci(4) has returned: nine runs, the last one begun with
\* order 9, every request answered.
C19_Witness ==
    /\ outcome = "returned" /\ Len(Posts(log)) = 9 /\ Len(Patches(log)) = 9
    /\ Posts(log)[9].execution_order = 9
    /\ \A k \in 1..Len(log) : ~log[k].raised

\* Numbers of the entries of a log that are PATCH requests carrying an error.
ErrorPatches(lg) == {i \in 1..Len(lg) : lg[i].method = "PATCH" /\ lg[i].error}

C13_CounterSerialized ==
    Quiescent =>
        /\ \A x, y \in SiblingIds :
              x # y /\ begin(x, "A") \in issued /\ begin(y, "A") \in issued =>
                  _run_map[x] # _run_map[y]
        /\ \A x \in SiblingIds :
              begin(x, "A") \in issued => _run_map["A"] >= _run_map[x]

\* C21: a request that raises in post_run or patch_run is dropped and does not
\* reach the workload: a fibonacci that raises no error of its own (the first
\* definition) returns its result.
C21_TransportFailureDropped ==
    defn = "plain" => outcome # "raised"

\* C22 as stated: _update_execution_order is a silent no-op for a run id
\* without registration, be it that the id was never begun or that its link
\* was removed by an earlier end: nothing is raised, no counter and no link
\* changes.
C22_SilentNoOp ==
    [][ last'.op = "end" /\ last'.run_id \notin DOMAIN _parents =>
            /\ last'.raises = "none"
            /\ _run_map' = _run_map /\ _parents' = _parents ]_vars

\* C22 amended: for a run id without a parent link _update_execution_order
\* changes no counter and no link, and it is silent only when the id has an
\* entry in _run_map (it was begun, or named as a parent); for an id without
\* an entry the lookup on its first line raises KeyError.
C22_NoOpOrKeyError ==
    [][ last'.op = "end" /\ last'.run_id \notin DOMAIN _parents =>
            /\ _run_map' = _run_map /\ _parents' = _parents
            /\ last'.raises = (IF last'.run_id \in DOMAIN _run_map
                               THEN "none" ELSE "KeyError") ]_vars

\* C22 witness: an end of an id that no begin has named, on a RunLogger that
\* holds other runs, raised KeyError.
C22_Witness ==
    /\ last.op = "end" /\ last.raises = "KeyError" /\ last.sent = "none"
    /\ last.run_id \notin DOMAIN _run_map /\ _parents # << >>

\* C25: every run that fibonacci begins is ended, a child's after its
\* parent's POST and before its parent's PATCH, whether the calls return or
\* raise; so when the top-level call is over every POST of the log has a PATCH
\* after it and no parent link is left in _parents.
C25_EveryRunEnded ==
    /\ \A k \in 1..Len(log) :
          log[k].method = "POST" /\ truthy(log[k].parent_run_id) =>
              /\ \E i \in 1..(k - 1) :
                    log[i].method = "POST" /\ log[i].run_id = log[k].parent_run_id
              /\ \A i \in 1..(k - 1) :
                    ~(log[i].method = "PATCH" /\ log[i].run_id = log[k].parent_run_id)
    /\ outcome # "none" =>
          /\ \A k \in 1..Len(log) :
                log[k].method = "POST" =>
                   \E i \in (k + 1)..Len(log) :
                      log[i].method = "PATCH" /\ log[i].run_id = log[k].run_id
          /\ _parents = << >>

\* C27: when the request of post_run or patch_run raises, _run_map and
\* _parents are as they were before the call.
C27_FailedRequestLeavesState ==
    [][ last'.raises = "ConnectionError" =>
            _run_map' = _run_map /\ _parents' = _parents ]_vars

\* C30: the keys of _parents are the runs begun with a parent and not ended
\* since (a begin with a parent puts the key, an end that finds the run's
\* entry removes it, no other call touches it), every key and every value of
\* _parents is a key of _run_map, and the end of a run that has an entry does
\* not raise KeyError.
C30_ParentsWellFormed ==
    [][ /\ last'.op = "begin" /\ truthy(last'.parent_run_id) =>
              last'.run_id \in DOMAIN _parents'
        /\ last'.op = "end" /\ last'.run_id \in DOMAIN _run_map =>
              last'.run_id \notin DOMAIN _parents' /\ last'.raises # "KeyError"
        /\ \A x \in DOMAIN _parents \cup DOMAIN _parents' :
              (x \in DOMAIN _parents) # (x \in DOMAIN _parents') =>
                  /\ x = last'.run_id
                  /\ x \in DOMAIN _parents' <=> last'.op = "begin"
        /\ \A x \in DOMAIN _parents' :
              x \in DOMAIN _run_map' /\ _parents'[x] \in DOMAIN _run_map'
      ]_vars

\* C30 witness: a run with a parent link was ended; the link is gone, the
\* links of other runs are there, with entries for both of their ends.
C30_Witness ==
    /\ last.op = "end" /\ truthy(last.parent_run_id) /\ last.raises = "none"
    /\ last.run_id \notin DOMAIN _parents /\ _parents # << >>
    /\ \A x \in DOMAIN _parents :
          x \in DOMAIN _run_map /\ _parents[x] \in DOMAIN _run_map

\* C23: two trees of runs with disjoint ids share one RunLogger; under every
\* interleaving of their calls each tree's calls return (and raise) what the
\* same calls return on a RunLogger that serves this tree alone.
C23_TreesIndependent ==
    \A ids \in {Tree1Ids, Tree2Ids} :
        Of(trace, ids) = Alone(Calls(Of(trace, ids)))

\* C23 witness: both trees are complete, their calls alternate at the start,
\* and each tree got the orders 1, 2, .. of a tree alone.
C23_Witness ==
    /\ Len(Of(trace, Tree1Ids)) = 6 /\ Len(Of(trace, Tree2Ids)) = 4
    /\ trace[1].call = begin("A", None) /\ trace[2].call = begin("P", None)
    /\ trace[3].call = begin("B", "A") /\ trace[4].call = begin("Q", "P")
    /\ trace[5].call = begin("C", "B")
    /\ OrderAt(trace, "C") = 3 /\ OrderAt(trace, "Q") = 2

C26_ChildAboveParent ==
    \A x \in TreeIds :
        BeginAt(trace, x) > 0 /\ truthy(ParentIn(trace, x)) =>
            /\ BeginAt(trace, ParentIn(trace, x)) > 0
            /\ BeginAt(trace, ParentIn(trace, x)) < BeginAt(trace, x)
            /\ OrderAt(trace, x) > OrderAt(trace, ParentIn(trace, x))

\* C26 witness: the first child of the root has order 2, and a run begun under
\* it after the root has got another child still has a larger order than it.
C26_Witness ==
    /\ Calls(trace) = << begin("A", None), begin("B", "A"), begin("C", "A"),
                         end("B"), begin("D", "B") >>
    /\ OrderAt(trace, "A") = 1 /\ OrderAt(trace, "B") = 2
    /\ OrderAt(trace, "D") > OrderAt(trace, "B")

----------------------------------------------------------------------------
\* The feedback pipeline of algorithmic_feedback.ipynb, applied to one run of
\* the project.  A pass runs the cells in the notebook's order: list_runs
\* fetches the run with the feedback_stats the service has aggregated by then,
\* compute_stats and evaluate_run are applied to what was fetched.  The
\* service aggregates created feedback into feedback_stats on its own time.

\* Largest number of passes of the pipeline over the run.
MaxPasses == 2

\* The text statistics compute_stats logs, in the order it creates them.
fns == <<"flesch_reading_ease", "flesch_kincaid_grade", "smog_index",
         "coleman_liau_index", "automated_readability_index">>

\* The scores the evaluator chain returns, in the order of its schema.
required == <<"relevance", "difficulty", "verbosity", "specificity">>

\* A feedback key that does not come from the pipeline.
user_score == "user_score"

\* Every feedback key of the run.
FeedbackKeys ==
    {fns[i] : i \in 1..Len(fns)} \cup {required[i] : i \in 1..Len(required)}
        \cup {user_score}

\* The service after client.create_feedback(run.id, key=keys[i], ...) for
\* i = 1..k: one more feedback row for each of these keys.
create_feedback(rows, keys, k) ==
    [key \in DOMAIN rows |->
        IF \E i \in 1..k : keys[i] = key THEN rows[key] + 1 ELSE rows[key]]

\* The numbers of create_feedback calls compute_stats(r) can make: none when
\* the run has no "input" or its feedback_stats hold "smog_index"; otherwise
\* one for each of fns, or fewer when a call raises (except: return []).
compute_stats(r) ==
    IF "input" \notin r.inputs
    THEN {0}
    ELSE IF r.feedback_stats # {} /\ "smog_index" \in r.feedback_stats
         THEN {0}
         ELSE 0..Len(fns)

\* The numbers of create_feedback calls evaluate_run(r) can make: none when
\* the run has no "input" or no "output", or its feedback_stats hold
\* 'specificity'; otherwise one for each score, or fewer when the chain, the
\* int(value) or a call raises (except: return []).
evaluate_run(r) ==
    IF "input" \notin r.inputs \/ r.outputs = {} \/ "output" \notin r.outputs
    THEN {0}
    ELSE IF r.feedback_stats # {} /\ "specificity" \in r.feedback_stats
         THEN {0}
         ELSE 0..Len(required)

\* runs = list(client.list_runs(...)): the run as the service shows it now.
list_runs ==
    /\ cell = "list_runs"
    /\ passes < MaxPasses
    /\ passes' = passes + 1
    /\ run' = [run EXCEPT !.feedback_stats = feedback_stats]
    /\ cell' = "compute_stats"
    /\ UNCHANGED <<feedback_stats, feedbacks, tracingvars, pollvars>>

\* RunnableLambda(compute_stats).batch(runs, ...)
batch_compute_stats ==
    /\ cell = "compute_stats"
    /\ \E k \in compute_stats(run) : feedbacks' = create_feedback(feedbacks, fns, k)
    /\ cell' = "evaluate_run"
    /\ UNCHANGED <<run, feedback_stats, passes, tracingvars, pollvars>>

\* wrapped_function.batch(runs, ...)
batch_evaluate_run ==
    /\ cell = "evaluate_run"
    /\ \E k \in evaluate_run(run) :
           feedbacks' = create_feedback(feedbacks, required, k)
    /\ cell' = "list_runs"
    /\ UNCHANGED <<run, feedback_stats, passes, tracingvars, pollvars>>

\* The service aggregates the feedback created so far into the run's stats
\* ("Updating the aggregate stats is async").
aggregate ==
    /\ cell # "none"
    /\ \E key \in FeedbackKeys : feedbacks[key] > 0 /\ key \notin feedback_stats
    /\ feedback_stats' = {key \in FeedbackKeys : feedbacks[key] > 0}
    /\ UNCHANGED <<run, feedbacks, cell, passes, tracingvars, pollvars>>

\* The run on the service before the first pass: with or without the fields
\* the pipeline reads, with no feedback or with a user's score, aggregated.
InitFeedback ==
    /\ Fresh /\ caller = "feedback" /\ defn = "none"
    /\ \E inputs \in {{"input"}, {"question"}}, outputs \in {{}, {"output"}} :
           run = [inputs |-> inputs, outputs |-> outputs, feedback_stats |-> {}]
    /\ feedback_stats \in {{}, {user_score}}
    /\ feedbacks = [key \in FeedbackKeys |->
                       IF key \in feedback_stats THEN 1 ELSE 0]
    /\ cell = "list_runs"
    /\ passes = 0
    /\ line = "none" /\ status = "none" /\ file_status = "none"
    /\ job_status = "none" /\ slept = 0

NextFeedback ==
    \/ list_runs
    \/ batch_compute_stats
    \/ batch_evaluate_run
    \/ aggregate

SpecFeedback == InitFeedback /\ [][NextFeedback]_vars

\* C28: applying the pipeline more than once to the same run creates feedback
\* for each key of the pipeline at most once, also when a pass starts before
\* the service has aggregated the feedback of the pass before.
C28_FeedbackAtMostOnce ==
    cell # "none" =>
        \A key \in FeedbackKeys \ {user_score} : feedbacks[key] <= 1

----------------------------------------------------------------------------
\* The polling loops of fine-tuning-on-chat-runs.ipynb: the notebook uploads
\* the training file and waits until the file's status is "processed", then
\* creates the fine-tuning job and waits until the job's status is
\* "succeeded".  line is the line the notebook executes next; the service
\* moves the file and the job through their statuses on its own time.

\* Largest number of sleeps the elapsed time shown by the loops tells apart.
MaxSleeps == 2

\* The statuses of an uploaded file and of a fine-tuning job on the service,
\* and those that are final.
FileStatuses == {"uploaded", "processed", "error"}
FileTerminal == {"processed", "error"}
JobStatuses == {"validating_files", "queued", "running", "succeeded", "failed",
                "cancelled"}
JobTerminal == {"succeeded", "failed", "cancelled"}

\* time.sleep(5): the elapsed time the loop prints next.
sleep(n) == IF n < MaxSleeps THEN n + 1 ELSE MaxSleeps

\* training_file = openai.File.create(file=my_file, purpose='fine-tune')
File_create ==
    /\ line = "512"
    /\ file_status' = "uploaded"
    /\ line' = "518"
    /\ UNCHANGED <<status, job_status, slept, tracingvars, feedbackvars>>

\* status = openai.File.retrieve(training_file.id).status; start_time = time.time()
File_retrieve ==
    /\ line = "518"
    /\ status' = file_status
    /\ slept' = 0
    /\ line' = "520"
    /\ UNCHANGED <<file_status, job_status, tracingvars, feedbackvars>>

\* while status != "processed": the test lets the loop go on
file_loop ==
    /\ line = "520"
    /\ status # "processed"
    /\ line' = "522"
    /\ UNCHANGED <<status, file_status, job_status, slept, tracingvars,
                   feedbackvars>>

\* print, time.sleep(5), status = openai.File.retrieve(training_file.id).status
file_poll ==
    /\ line = "522"
    /\ slept' = sleep(slept)
    /\ status' = file_status
    /\ line' = "520"
    /\ UNCHANGED <<file_status, job_status, tracingvars, feedbackvars>>

\* The file loop ends (print "File ... ready") and the next cell starts.
file_ready ==
    /\ line = "520"
    /\ status = "processed"
    /\ line' = "550"
    /\ UNCHANGED <<status, file_status, job_status, slept, tracingvars,
                   feedbackvars>>

\* job = openai.FineTuningJob.create(training_file=..., model="gpt-3.5-turbo")
FineTuningJob_create ==
    /\ line = "550"
    /\ job_status' = "validating_files"
    /\ line' = "556"
    /\ UNCHANGED <<status, file_status, slept, tracingvars, feedbackvars>>

\* status = openai.FineTuningJob.retrieve(job.id).status; start_time = time.time()
FineTuningJob_retrieve ==
    /\ line = "556"
    /\ status' = job_status
    /\ slept' = 0
    /\ line' = "558"
    /\ UNCHANGED <<file_status, job_status, tracingvars, feedbackvars>>

\* while status != "succeeded": the test lets the loop go on
job_loop ==
    /\ line = "558"
    /\ status # "succeeded"
    /\ line' = "560"
    /\ UNCHANGED <<status, file_status, job_status, slept, tracingvars,
                   feedbackvars>>

\* print, time.sleep(5), job = openai.FineTuningJob.retrieve(job.id),
\* status = job.status
job_poll ==
    /\ line = "560"
    /\ slept' = sleep(slept)
    /\ status' = job_status
    /\ line' = "558"
    /\ UNCHANGED <<file_status, job_status, tracingvars, feedbackvars>>

\* The job loop ends: the cell is done.
job_done ==
    /\ line = "558"
    /\ status = "succeeded"
    /\ line' = "done"
    /\ UNCHANGED <<status, file_status, job_status, slept, tracingvars,
                   feedbackvars>>

\* The service processes the uploaded file, or fails to.
service_file ==
    /\ file_status = "uploaded"
    /\ file_status' \in FileTerminal
    /\ UNCHANGED <<line, status, job_status, slept, tracingvars, feedbackvars>>

\* The service moves the job on: it validates the file, queues and runs the
\* job, which succeeds or fails; the job can be cancelled until it has ended.
service_job ==
    /\ job_status \in JobStatuses \ JobTerminal
    /\ job_status' \in
           CASE job_status = "validating_files" -> {"queued", "failed", "cancelled"}
             [] job_status = "queued" -> {"running", "failed", "cancelled"}
             [] job_status = "running" -> {"succeeded", "failed", "cancelled"}
    /\ UNCHANGED <<line, status, file_status, slept, tracingvars, feedbackvars>>

InitPoll ==
    /\ Fresh /\ caller = "poll" /\ defn = "none"
    /\ run = [inputs |-> {}, outputs |-> {}, feedback_stats |-> {}]
    /\ feedback_stats = {} /\ feedbacks = << >> /\ cell = "none" /\ passes = 0
    /\ line = "512"
    /\ status = "none"
    /\ file_status = "none"
    /\ job_status = "none"
    /\ slept = 0

\* The steps of the notebook.
Notebook ==
    \/ File_create
    \/ File_retrieve
    \/ file_loop
    \/ file_poll
    \/ file_ready
    \/ FineTuningJob_create
    \/ FineTuningJob_retrieve
    \/ job_loop
    \/ job_poll
    \/ job_done

NextPoll ==
    \/ Notebook
    \/ service_file
    \/ service_job

\* The kernel runs the statements of a cell one after the other and every
\* time.sleep(5) returns: the notebook takes its next step while it has one.
\* Nothing is assumed of the service.
SpecPoll == InitPoll /\ [][NextPoll]_vars /\ WF_vars(Notebook)

\* C29: each polling loop ends once the object it waits for has reached a
\* final status: the file loop when the file is processed or in error, the job
\* loop when the job has succeeded, failed or was cancelled.
C29_PollingLoopsTerminate ==
    /\ (line \in {"520", "522"} /\ file_status \in FileTerminal)
           ~> (line \notin {"520", "522"})
    /\ (line \in {"558", "560"} /\ job_status \in JobTerminal)
           ~> (line = "done")

====
